---- MODULE Spec2Model ----
(***************************************************************************)
(* Model of club::transport::AckSet (src/club/transport/ack_set.h) and of  *)
(* club::transport::TransmitQueue (src/club/transport/transmit_queue.h).   *)
(*                                                                         *)
(* SpecAckSet drives one AckSet with try_add calls; SpecQueue drives one   *)
(* TransmitQueue (one outbound link) with add_target, insert_message and   *)
(* encode_few calls, and with the target removals that the rest of the     *)
(* node performs on the shared Message objects.                            *)
(***************************************************************************)
EXTENDS Integers, Naturals, Sequences, FiniteSets, TLC

VARIABLES
  \* ---- AckSet ----
  acks,        \* the AckSet object: is_empty, highest_sequence_number,
               \* lowest_sequence_number, predecessors
  base,        \* the sequence number the driver's inputs are offsets of
  calls,       \* number of try_add calls made so far
  arg,         \* argument of the last try_add call
  ret,         \* return value of the last try_add call
  args,        \* every argument passed to try_add so far
  accepted,    \* the arguments for which try_add returned true
  allTrue,     \* TRUE while no try_add call has returned false
  first_added, \* argument of the first try_add call
  prevAcks,    \* the AckSet object as it was before the last try_add call
  \* ---- TransmitQueue ----
  _targets,    \* std::set<uuid> _targets
  _messages,   \* std::list<MessagePtr> _messages, as the list of message ids
  _next,       \* Messages::iterator _next: the id of the element it points
               \* at, or End
  message,     \* the shared Message objects the queue holds a pointer to:
               \* message[m] = [targets, reliable, size]
  op,          \* the last operation called on the queue
  log,         \* one entry per loop iteration of the encode_few call, when
               \* the last operation was one
  result,      \* returned count and encoder of that encode_few call
  released,    \* released[m]: number of OutboundMessages::release calls for m
  encodings,   \* encodings[m]: number of records written for unreliable m
  sent,        \* sent[m]: the targets the records of m were addressed to
  first_encodings, \* the messages in the order of their first encoding
  pending,     \* pending[m]: the messages that were queued when m was last
               \* encoded, have stayed queued and were not encoded since
  overtaken,   \* the pairs <<m, x>> such that m was encoded twice while x
               \* stayed queued without being encoded in between
  lapped,      \* TRUE once a message was encoded again while a message
               \* first encoded before it was still queued
  retry,       \* the message on which the last encode_few call stopped
               \* because try_encode failed, or End
  process      \* what is known of the build the process runs: "unknown"
               \* while no assert(0) was reached (every build behaves the
               \* same), "NDEBUG" once one was passed, "aborted" once one
               \* has failed (the process is gone)

ackVars == <<acks, base, calls, arg, ret, args, accepted, allTrue,
             first_added, prevAcks>>

queueVars == <<_targets, _messages, _next, message, op, log, result,
               released, encodings, sent, first_encodings, pending,
               overtaken, lapped, retry, process>>

vars == <<ackVars, queueVars>>

----------------------------------------------------------------------------
(***************************************************************************)
(* SequenceNumber: an unsigned 32-bit counter.  The values do not fit the  *)
(* model checker's integers, so a sequence number is kept as its two       *)
(* 16-bit halves and the arithmetic carries between them (mod 2^32).       *)
(***************************************************************************)
Half == 65536

SN(h, l) == [hi |-> h, lo |-> l]

SNZero == SN(0, 0)

\* a + n (mod 2^32), for 0 <= n < 2^16
SNAdd(a, n) ==
  LET s == a.lo + n
  IN  SN((a.hi + (s \div Half)) % Half, s % Half)

\* a - b (mod 2^32)
SNDiff(a, b) ==
  LET borrow == IF a.lo < b.lo THEN 1 ELSE 0
  IN  SN((a.hi - b.hi - borrow) % Half, (a.lo - b.lo) % Half)

\* a - n (mod 2^32), for 0 <= n < 2^16
SNSub(a, n) == SNDiff(a, SN(0, n))

\* a < b iff (b - a), read as a signed 32-bit number, is positive
SNLess(a, b) ==
  LET d == SNDiff(b, a)
  IN  d # SNZero /\ d.hi < Half \div 2

SNGreater(a, b) == SNLess(b, a)

\* the value of a sequence-number difference known to be below 2^16
SNSmall(d) == d.lo

----------------------------------------------------------------------------
(***************************************************************************)
(* AckSet.  predecessors is a 31-bit field; it is kept as the set of the   *)
(* positions of its set bits (bit i set <=> highest - (i+1) represented).  *)
(***************************************************************************)
PredBits == 31

BitPositions == 0 .. (PredBits - 1)

\* predecessors <<= shift, truncated to the width of the bit field
ShiftLeft(preds, shift) ==
  { b + shift : b \in preds } \cap BitPositions

\* try_add, new_sn < hsn: is new_sn below the window (silently ignored)?
BelowWindow(hsn, new_sn) == SNLess(new_sn, SNSub(hsn, 31))

\* a mutant of MarkPredecessor: the bit index is off by one
MarkPredecessorOffByOne(a, new_sn) ==
  [a EXCEPT !.predecessors =
     @ \cup ({SNSmall(SNDiff(a.highest_sequence_number, new_sn))}
               \cap BitPositions)]

\* try_add, new_sn < hsn in the window: predecessors |= 1 << (hsn-new_sn-1)
MarkPredecessor(a, new_sn) ==
  [a EXCEPT !.predecessors =
     @ \cup {SNSmall(SNDiff(a.highest_sequence_number, new_sn)) - 1}]

\* a mutant of TooFarAhead: the distance check is off by one
TooFarAheadOffByOne(hsn, new_sn) == SNGreater(new_sn, SNAdd(hsn, 30))

\* try_add, new_sn > hsn: is the advance larger than the window?
TooFarAhead(hsn, new_sn) == SNGreater(new_sn, SNAdd(hsn, 31))

\* a mutant of ShiftAllowed: the comparison with the first sequence number
\* uses a window of 30 instead of 31
ShiftAllowedNarrow(a, shift) ==
  \A i \in 0 .. (shift - 1) :
    \/ SNLess(a.highest_sequence_number,
              SNSub(SNAdd(a.lowest_sequence_number, 30), i))
    \/ (30 - i) \in a.predecessors

\* a mutant of ShiftAllowed: only the first position pushed out is looked at
ShiftAllowedOnce(a, shift) ==
  \A i \in 0 .. 0 :
    \/ SNLess(a.highest_sequence_number,
              SNSub(SNAdd(a.lowest_sequence_number, 31), i))
    \/ (30 - i) \in a.predecessors

\* try_add, the loop that refuses an advance which would push out of the
\* window a sequence number that is not represented
ShiftAllowed(a, shift) ==
  \A i \in 0 .. (shift - 1) :
    \/ SNLess(a.highest_sequence_number,
              SNSub(SNAdd(a.lowest_sequence_number, 31), i))
    \/ (30 - i) \in a.predecessors

\* a mutant of Advance: highest is not moved
AdvanceKeepHighest(a, new_sn, shift) ==
  [a EXCEPT !.predecessors = ShiftLeft(@, shift) \cup {shift - 1}]

\* a mutant of Advance: the bitmap is not shifted
AdvanceNoShift(a, new_sn, shift) ==
  [a EXCEPT !.predecessors = @ \cup {shift - 1},
            !.highest_sequence_number = new_sn]

\* try_add, the accepted advance: shift the bitmap, mark the old highest,
\* move highest (is_empty is saved and restored around the shift)
Advance(a, new_sn, shift) ==
  [a EXCEPT !.predecessors = ShiftLeft(@, shift) \cup {shift - 1},
            !.highest_sequence_number = new_sn]

\* bool AckSet::try_add(SequenceNumber new_sn): the object afterwards and
\* the value returned
try_add(a, new_sn) ==
  IF a.is_empty
  THEN [acks |-> [is_empty |-> FALSE,
                  highest_sequence_number |-> new_sn,
                  lowest_sequence_number  |-> new_sn,
                  predecessors |-> {}],
        ret |-> TRUE]
  ELSE LET hsn == a.highest_sequence_number IN
       IF new_sn = hsn THEN [acks |-> a, ret |-> TRUE]
       ELSE IF SNLess(new_sn, hsn)
       THEN IF BelowWindow(hsn, new_sn)
            THEN [acks |-> a, ret |-> TRUE]
            ELSE [acks |-> MarkPredecessor(a, new_sn), ret |-> TRUE]
       ELSE IF TooFarAhead(hsn, new_sn)
            THEN [acks |-> a, ret |-> FALSE]
            ELSE LET shift == SNSmall(SNDiff(new_sn, hsn)) IN
                 IF ~ShiftAllowed(a, shift)
                 THEN [acks |-> a, ret |-> FALSE]
                 ELSE [acks |-> Advance(a, new_sn, shift), ret |-> TRUE]

\* AckSet::begin() / end(): iterator positions
IterEnd == 32

IterBegin(a) == IF a.is_empty THEN IterEnd ELSE 0

\* iterator::operator++ : bit 31 of the promoted bit field is never set
RECURSIVE IterInc(_, _)
IterInc(a, pos) ==
  IF pos < 32
  THEN IF ((pos + 1) - 1) \in a.predecessors
       THEN pos + 1
       ELSE IterInc(a, pos + 1)
  ELSE pos

\* iterator::operator*
IterDeref(a, pos) == SNSub(a.highest_sequence_number, pos)

\* the values a loop from begin() to end() yields, in order
RECURSIVE IterFrom(_, _)
IterFrom(a, pos) ==
  IF pos = IterEnd THEN <<>>
  ELSE <<IterDeref(a, pos)>> \o IterFrom(a, IterInc(a, pos))

Iterate(a) == IterFrom(a, IterBegin(a))

----------------------------------------------------------------------------
(***************************************************************************)
(* binary::encoder, as far as TransmitQueue uses it: a write position      *)
(* (_current.begin), the end of the buffer and the error flag.  A write    *)
(* that does not fit sets the flag and writes nothing.  The field aborted  *)
(* is not part of the encoder: it is set when the process was aborted by   *)
(* a failed assertion while writing to it, after which no statement runs.  *)
(***************************************************************************)
UuidSize == 16

FreshEncoder(capacity) ==
  [begin |-> 0, end |-> capacity, was_error |-> FALSE, aborted |-> FALSE]

\* encoder::put / put_raw of n bytes
put(enc, n) ==
  IF enc.aborted THEN enc
  ELSE IF enc.was_error \/ enc.end - enc.begin < n
  THEN [enc EXCEPT !.was_error = TRUE]
  ELSE [enc EXCEPT !.begin = @ + n]

\* encoder::set_error
set_error(enc) == [enc EXCEPT !.was_error = TRUE]

----------------------------------------------------------------------------
(***************************************************************************)
(* TransmitQueue.  _messages is a std::list; an iterator into it is kept   *)
(* as the id of the element it points at (a message is handed to           *)
(* insert_message once, so ids name list nodes), End is _messages.end().   *)
(***************************************************************************)
End == 0

\* an iterator whose element has been erased: it compares unequal to every
\* iterator of the list
Dangling == -1

Position(list, m) == CHOOSE i \in 1 .. Len(list) : list[i] = m

Without(list, m) == SelectSeq(list, LAMBDA x : x # m)

\* _messages.begin()
Begin(list) == IF list = <<>> THEN End ELSE list[1]

\* ++i on a list iterator
Successor(list, i) ==
  IF Position(list, i) = Len(list) THEN End
  ELSE list[Position(list, i) + 1]

\* a mutant of circular_increment: the wrap to begin() is followed by
\* another increment
circular_incrementSkip(list, i) ==
  IF Successor(list, i) = End
  THEN (IF Len(list) > 1 THEN list[2] ELSE Begin(list))
  ELSE Successor(list, i)

\* TransmitQueue::circular_increment
circular_increment(list, i) ==
  IF Successor(list, i) = End THEN Begin(list) ELSE Successor(list, i)

\* the start of encode_few: last = the circular predecessor of _next
CircularPredecessor(list, i) ==
  IF i = Begin(list) THEN list[Len(list)]
  ELSE list[Position(list, i) - 1]

\* a mutant of set_intersection: the link's targets are not looked at
set_intersectionFirst(set1, set2) == set1

\* TransmitQueue::set_intersection
set_intersection(set1, set2) == set1 \cap set2

\* the puts of the target uuids in encode_targets
RECURSIVE PutUuids(_, _)
PutUuids(enc, n) ==
  IF n = 0 THEN enc ELSE PutUuids(put(enc, UuidSize), n - 1)

\* the builds of the program: compiled with NDEBUG (assert is removed) or
\* without it (the default: a failed assert aborts the process)
Builds == BOOLEAN

\* assert(0) in encode_targets: aborts the process unless the build
\* defines NDEBUG
assert0(enc, ndebug) ==
  IF ndebug THEN enc ELSE [enc EXCEPT !.aborted = TRUE]

\* TransmitQueue::encode_targets.  With more targets than a uint8_t counts
\* the process aborts at assert(0); only a build with NDEBUG goes on to
\* return encoder.set_error()
encode_targets(enc, targets, ndebug) ==
  IF enc.aborted THEN enc
  ELSE IF Cardinality(targets) > 255
  THEN LET a == assert0(enc, ndebug)
       IN  IF a.aborted THEN a ELSE set_error(a)
  ELSE PutUuids(put(enc, 1), Cardinality(targets))

\* TransmitQueue::encode
encode(enc, targets, msg, ndebug) ==
  put(encode_targets(put(enc, UuidSize), targets, ndebug), msg.size)

\* a mutant of try_encode: the write position is not restored
try_encodeNoRollback(enc, targets, msg, ndebug) ==
  LET e == encode(enc, targets, msg, ndebug)
  IN  IF e.aborted THEN [enc |-> e, ok |-> FALSE]
      ELSE IF e.was_error
      THEN [enc |-> [e EXCEPT !.was_error = enc.was_error], ok |-> FALSE]
      ELSE [enc |-> e, ok |-> TRUE]

\* TransmitQueue::try_encode: the encoder afterwards and the value returned
\* (nothing is returned when the process was aborted inside encode: the
\* encoder is left as it was at the assertion, marked aborted)
try_encode(enc, targets, msg, ndebug) ==
  LET e == encode(enc, targets, msg, ndebug)
  IN  IF e.aborted THEN [enc |-> e, ok |-> FALSE]
      ELSE IF e.was_error
      THEN [enc |-> [e EXCEPT !.begin = enc.begin,
                              !.was_error = enc.was_error],
            ok |-> FALSE]
      ELSE [enc |-> e, ok |-> TRUE]

\* a mutant of erase: the message is not released
eraseNoRelease(s, i) ==
  [s EXCEPT
     !.next     = IF i = s.next
                  THEN (IF Successor(s.messages, i) = End
                        THEN Begin(Without(s.messages, i))
                        ELSE Successor(s.messages, i))
                  ELSE s.next,
     !.messages = Without(@, i),
     !.message  = [k \in (DOMAIN @) \ {i} |-> @[k]],
     !.last     = IF s.last = i THEN Dangling ELSE s.last]

\* a mutant of erase: the case i == _next is not treated, the cursor keeps
\* pointing at the erased element
eraseKeepCursor(s, i) ==
  [s EXCEPT
     !.released = [@ EXCEPT ![i] = @ + 1],
     !.messages = Without(@, i),
     !.message  = [k \in (DOMAIN @) \ {i} |-> @[k]],
     !.last     = IF s.last = i THEN Dangling ELSE s.last]

\* TransmitQueue::erase(i), on the state s of a running encode_few
erase(s, i) ==
  [s EXCEPT
     !.released = [@ EXCEPT ![i] = @ + 1],
     !.next     = IF i = s.next
                  THEN (IF Successor(s.messages, i) = End
                        THEN Begin(Without(s.messages, i))
                        ELSE Successor(s.messages, i))
                  ELSE s.next,
     !.messages = Without(@, i),
     !.message  = [k \in (DOMAIN @) \ {i} |-> @[k]],
     !.last     = IF s.last = i THEN Dangling ELSE s.last]

\* the record of one loop iteration of encode_few
Note(s, m, what, inter) ==
  [s EXCEPT !.log = Append(@, [m |-> m, what |-> what, targets |-> inter,
                               begin |-> s.enc.begin,
                               cursor_ok |-> ((s.messages = <<>>) <=> (s.next = End))])]

\* a mutant of AfterEncode: reliable messages are treated like unreliable
\* ones
AfterEncodeAlsoReliable(s, current) ==
  LET s1 == [s EXCEPT !.message[current].targets = @ \ _targets]
  IN  IF s1.message[current].targets = {}
      THEN [s1 EXCEPT
              !.released = [@ EXCEPT ![current] = @ + 1],
              !.next     = IF current = s1.next
                           THEN (IF Successor(s1.messages, current) = End
                                 THEN Begin(Without(s1.messages, current))
                                 ELSE Successor(s1.messages, current))
                           ELSE s1.next,
              !.messages = Without(@, current),
              !.message  = [k \in (DOMAIN @) \ {current} |-> @[k]],
              !.last     = IF s1.last = current THEN Dangling ELSE s1.last]
      ELSE s1

\* a mutant of AfterEncode: a message left without targets is not erased
AfterEncodeNoErase(s, current) ==
  IF s.message[current].reliable THEN s
  ELSE [s EXCEPT !.message[current].targets = @ \ _targets]

\* a mutant of AfterEncode: an unreliable message keeps its targets
AfterEncodeKeepTargets(s, current) == s

\* encode_few after a successful try_encode of an unreliable message: the
\* link's targets are removed from the message, which is erased when none
\* is left
AfterEncode(s, current) ==
  IF s.message[current].reliable THEN s
  ELSE LET s1 == [s EXCEPT !.message[current].targets = @ \ _targets]
       IN  IF s1.message[current].targets = {}
           THEN erase(s1, current)
           ELSE s1

\* a mutant of OnEncodeFailure: the cursor is not set back
OnEncodeFailureNoReset(s, current, enc) == [s EXCEPT !.enc = enc]

\* encode_few when try_encode fails: _next = current
OnEncodeFailure(s, current, enc) == [s EXCEPT !.next = current, !.enc = enc]

\* a mutant of OnEncodeSuccess: the record is not counted
OnEncodeSuccessNoCount(s, enc) == [s EXCEPT !.enc = enc]

\* encode_few when try_encode succeeds: ++count
OnEncodeSuccess(s, enc) ==
  [s EXCEPT !.enc = enc, !.count = (@ + 1) % 65536]

\* the while (true) loop of encode_few
RECURSIVE Loop(_)
Loop(s) ==
  LET current == s.next
      s1      == [s EXCEPT !.next = circular_increment(s.messages, s.next)]
      is_last == (current = s.last)
      inter   == set_intersection(s.message[current].targets, _targets)
  IN
  IF inter = {}
  THEN LET s2 == Note(erase(s1, current), current, "erased", inter)
       IN  IF s2.messages = <<>> THEN s2 ELSE Loop(s2)
  ELSE
  LET t == try_encode(s1.enc, inter, s.message[current], s.ndebug) IN
  IF t.enc.aborted
  THEN Note([s1 EXCEPT !.enc = t.enc, !.aborted = TRUE],
            current, "aborted", inter)
  ELSE IF ~t.ok
  THEN Note(OnEncodeFailure(s1, current, t.enc), current, "failed", inter)
  ELSE
  LET s2 == OnEncodeSuccess(s1, t.enc)
      s3 == AfterEncode(s2, current)
      s4 == Note(s3, current,
                 IF current \in { s3.messages[i] : i \in 1 .. Len(s3.messages) }
                 THEN "encoded" ELSE "encoded_erased", inter)
  IN  IF s4.messages = <<>> THEN s4
      ELSE IF is_last THEN s4
      ELSE Loop(s4)

\* uint16_t TransmitQueue::encode_few(binary::encoder&), in a build with
\* or without NDEBUG: the state when the call returns, or when the process
\* is aborted inside it
EncodeFew(enc, ndebug) ==
  LET s == [messages |-> _messages, next |-> _next, message |-> message,
            enc |-> enc, count |-> 0, log |-> <<>>, released |-> released,
            last |-> Dangling, ndebug |-> ndebug, aborted |-> FALSE]
  IN  IF _messages = <<>> THEN s
      ELSE Loop([s EXCEPT !.last = CircularPredecessor(_messages, _next)])

\* a mutant of InsertBefore: the message is put at begin()
InsertAtFront(list, i, m) == <<m>> \o list

\* a mutant of InsertBefore: the message is appended to the list
InsertAtEnd(list, i, m) == Append(list, m)

\* _messages.insert(_next, message)
InsertBefore(list, i, m) ==
  IF i = End THEN Append(list, m)
  ELSE SubSeq(list, 1, Position(list, i) - 1) \o <<m>>
       \o SubSeq(list, Position(list, i), Len(list))

----------------------------------------------------------------------------
(***************************************************************************)
(* Driver of the AckSet.                                                   *)
(***************************************************************************)
MaxCalls == 4

\* the inputs are base + offset; the second base makes them wrap around 0
Bases   == { SN(0, 0), SN(65535, 65520) }
Offsets == { 0, 1, 2, 3, 30, 31, 32, 33, 34, 63, 64, 65 }

\* the members of an uninitialised AckSet hold whatever was in memory
Garbage == { SN(0, 0), SN(4660, 22136) }

\* the state of a newly constructed AckSet whose members hold h and l
AckSetConstructed(h, l) ==
  /\ acks = [is_empty |-> TRUE,
             highest_sequence_number |-> h,
             lowest_sequence_number  |-> l,
             predecessors |-> {}]
  /\ calls = 0
  /\ arg = SNZero
  /\ ret = TRUE
  /\ args = {}
  /\ accepted = {}
  /\ allTrue = TRUE
  /\ first_added = SNZero
  /\ prevAcks = acks

AckSetInit ==
  /\ base \in Bases
  /\ \E h \in Garbage, l \in Garbage : AckSetConstructed(h, l)

TryAdd(sn) ==
  /\ calls < MaxCalls
  /\ LET r == try_add(acks, sn) IN
       /\ acks' = r.acks
       /\ ret' = r.ret
       /\ accepted' = IF r.ret THEN accepted \cup {sn} ELSE accepted
       /\ allTrue' = (allTrue /\ r.ret)
  /\ arg' = sn
  /\ args' = args \cup {sn}
  /\ calls' = calls + 1
  /\ first_added' = IF calls = 0 THEN sn ELSE first_added
  /\ prevAcks' = acks
  /\ UNCHANGED base

----------------------------------------------------------------------------
(***************************************************************************)
(* Driver of the TransmitQueue: one outbound link of a node.               *)
(***************************************************************************)
MaxMessages == 3

Peers        == { 1, 2 }
\* the target sets of the messages handed to insert_message
TargetSets   == { {1}, {1, 2} }
PayloadSizes == { 4, 200 }
Capacities   == { 90 }

Queued == { _messages[i] : i \in 1 .. Len(_messages) }

\* log and result when the last operation was not encode_few
NoResult == [count |-> 0, enc |-> FreshEncoder(0)]

\* TransmitQueue::TransmitQueue
QueueInit ==
  /\ _targets = {}
  /\ _messages = <<>>
  /\ _next = End
  /\ message = [m \in {} |-> 0]
  /\ op = "TransmitQueue"
  /\ log = <<>>
  /\ result = [count |-> 0, enc |-> FreshEncoder(0)]
  /\ released = <<>>
  /\ encodings = <<>>
  /\ sent = <<>>
  /\ first_encodings = <<>>
  /\ pending = <<>>
  /\ overtaken = {}
  /\ lapped = FALSE
  /\ retry = End
  /\ process = "unknown"

\* void TransmitQueue::add_target(const uuid&), for an id that is not a
\* target yet (inserting a present id leaves the set as it is).  Peer ids
\* are only names: the peers become targets in the order of their ids
add_target(id) ==
  /\ process # "aborted"
  /\ id \notin _targets
  /\ \A p \in Peers : p < id => p \in _targets
  /\ _targets' = _targets \cup {id}
  /\ op' = "add_target"
  /\ log' = <<>>
  /\ result' = NoResult
  /\ UNCHANGED <<_messages, _next, message, released, encodings, sent,
                 first_encodings, pending, overtaken, lapped, retry,
                 process>>

\* void TransmitQueue::insert_message(MessagePtr), with a Message created
\* by the caller
insert_message(targets, reliable, size) ==
  LET m == Len(released) + 1 IN
  /\ process # "aborted"
  /\ m <= MaxMessages
  /\ message' = [k \in (DOMAIN message) \cup {m} |->
                   IF k = m
                   THEN [targets |-> targets, reliable |-> reliable,
                         size |-> size]
                   ELSE message[k]]
  /\ _messages' = InsertBefore(_messages, _next, m)
  /\ _next' = IF _next = End THEN Begin(_messages') ELSE _next
  /\ op' = "insert_message"
  /\ released' = Append(released, 0)
  /\ encodings' = Append(encodings, 0)
  /\ sent' = Append(sent, [p \in Peers |-> 0])
  /\ pending' = Append(pending, {})
  /\ log' = <<>>
  /\ result' = NoResult
  /\ UNCHANGED <<_targets, first_encodings, overtaken, lapped, retry,
                 process>>

\* the history after the loop iterations of one encode_few call
RECURSIVE Recorded(_, _, _)
Recorded(h, entries, msgs) ==
  IF entries = <<>> THEN h
  ELSE
  LET e    == Head(entries)
      m    == e.m
      done == e.what \in {"encoded", "encoded_erased"}
      gone == e.what \in {"erased", "encoded_erased"}
      h1   == IF done
              THEN [h EXCEPT
                 !.encodings = IF msgs[m].reliable THEN @
                               ELSE [@ EXCEPT ![m] = @ + 1],
                 !.sent = IF msgs[m].reliable THEN @
                          ELSE [@ EXCEPT ![m] =
                                  [p \in Peers |->
                                     IF p \in e.targets THEN @[p] + 1
                                     ELSE @[p]]],
                 !.first_encodings =
                     IF \E i \in 1 .. Len(@) : @[i] = m THEN @
                     ELSE Append(@, m),
                 !.overtaken = @ \cup { <<m, x>> : x \in h.pending[m] \ {m} },
                 !.lapped = @ \/ \E i, j \in 1 .. Len(h.first_encodings) :
                              /\ i < j
                              /\ h.first_encodings[j] = m
                              /\ h.first_encodings[i] \in h.queued,
                 !.pending = [k \in DOMAIN @ |->
                                IF k = m THEN h.queued \ {m}
                                ELSE @[k] \ {m}]]
              ELSE h
      h2   == IF gone
              THEN [h1 EXCEPT
                 !.queued  = @ \ {m},
                 !.pending = [k \in DOMAIN @ |-> @[k] \ {m}]]
              ELSE h1
  IN  Recorded(h2, Tail(entries), msgs)

\* the call passed an assert(0), which only a build with NDEBUG does
AssertPassed(entries) ==
  \E i \in 1 .. Len(entries) :
    entries[i].what = "failed" /\ Cardinality(entries[i].targets) > 255

\* the outcomes of encode_few in the builds the run so far is consistent
\* with.  A call that reaches no assert(0) is the same in every build; one
\* that reaches it aborts the process, or goes on in a build with NDEBUG
EncodeFewOutcomes(enc) ==
  LET d == EncodeFew(enc, FALSE)
  IN  IF ~d.aborted THEN {d}
      ELSE IF process = "NDEBUG" THEN {EncodeFew(enc, TRUE)}
      ELSE {d, EncodeFew(enc, TRUE)}

\* uint16_t TransmitQueue::encode_few(binary::encoder&), called with an
\* encoder that has capacity bytes left.  When the process is aborted
\* inside the call the variables keep what was done up to the assertion and
\* nothing is returned
encode_few(capacity) ==
  \E r \in EncodeFewOutcomes(FreshEncoder(capacity)) :
  LET h == Recorded([encodings |-> encodings, sent |-> sent,
                     first_encodings |-> first_encodings,
                     overtaken |-> overtaken, lapped |-> lapped,
                     pending |-> pending,
                     queued |-> Queued],
                    r.log, message)
  IN
  /\ process # "aborted"
  /\ _messages' = r.messages
  /\ _next' = r.next
  /\ message' = r.message
  /\ released' = r.released
  /\ log' = r.log
  /\ result' = [count |-> r.count, enc |-> r.enc]
  /\ op' = "encode_few"
  /\ encodings' = h.encodings
  /\ sent' = h.sent
  /\ first_encodings' = h.first_encodings
  /\ overtaken' = h.overtaken
  /\ lapped' = h.lapped
  /\ pending' = h.pending
  /\ retry' = IF r.log # <<>> /\ r.log[Len(r.log)].what = "failed"
               THEN r.log[Len(r.log)].m ELSE End
  /\ process' = IF r.aborted THEN "aborted"
                ELSE IF AssertPassed(r.log) THEN "NDEBUG"
                ELSE process
  /\ UNCHANGED _targets

\* OutboundMessages::acknowledge: target id has acknowledged the reliable
\* message m and is removed from its targets
acknowledge(m, id) ==
  /\ process # "aborted"
  /\ m \in Queued
  /\ message[m].reliable
  /\ id \in message[m].targets
  /\ message' = [message EXCEPT ![m].targets = @ \ {id}]
  /\ op' = "acknowledge"
  /\ log' = <<>>
  /\ result' = NoResult
  /\ UNCHANGED <<_targets, _messages, _next, released, encodings, sent,
                 first_encodings, pending, overtaken, lapped, retry,
                 process>>

\* the encode_few of another link of the node, whose target set is
\* link_targets, has encoded the shared unreliable message m and removed
\* its own targets from it
other_link_encoded(m, link_targets) ==
  /\ process # "aborted"
  /\ m \in Queued
  /\ ~message[m].reliable
  /\ message[m].targets \cap link_targets # {}
  /\ message' = [message EXCEPT ![m].targets = @ \ link_targets]
  /\ op' = "other_link_encoded"
  /\ log' = <<>>
  /\ result' = NoResult
  /\ UNCHANGED <<_targets, _messages, _next, released, encodings, sent,
                 first_encodings, pending, overtaken, lapped, retry,
                 process>>

----------------------------------------------------------------------------
(***************************************************************************)
(* The specifications.                                                     *)
(***************************************************************************)
AckSetNext ==
  /\ \E o \in Offsets : TryAdd(SNAdd(base, o))
  /\ UNCHANGED queueVars

\* an AckSet under test, beside a TransmitQueue that is never used
AckSetAlone == AckSetInit /\ QueueInit

SpecAckSet == AckSetAlone /\ [][AckSetNext]_vars

QueueNext ==
  /\ \/ \E id \in Peers : add_target(id)
     \/ \E t \in TargetSets, r \in BOOLEAN, sz \in PayloadSizes :
          insert_message(t, r, sz)
     \/ \E c \in Capacities : encode_few(c)
     \/ \E m \in Queued, id \in Peers : acknowledge(m, id)
     \/ \E m \in Queued, id \in Peers : other_link_encoded(m, {id})
  /\ UNCHANGED ackVars

\* a TransmitQueue under test, beside an AckSet that is never used
QueueAlone ==
  QueueInit /\ base = SNZero /\ AckSetConstructed(SNZero, SNZero)

SpecQueue == QueueAlone /\ [][QueueNext]_vars

\* add_target while the link is set up, before the first message is queued
add_target_first(id) == Len(released) = 0 /\ add_target(id)

\* a link whose targets are all added before the first insert_message
SetUpFirstNext ==
  /\ \/ \E id \in Peers : add_target_first(id)
     \/ \E t \in TargetSets, r \in BOOLEAN, sz \in PayloadSizes :
          insert_message(t, r, sz)
     \/ \E c \in Capacities : encode_few(c)
     \/ \E m \in Queued, id \in Peers : acknowledge(m, id)
     \/ \E m \in Queued, id \in Peers : other_link_encoded(m, {id})
  /\ UNCHANGED ackVars

SpecQueueSetUpFirst == QueueAlone /\ [][SetUpFirstNext]_vars

----------------------------------------------------------------------------
(***************************************************************************)
(* Properties of the AckSet (checked under SpecAckSet).                    *)
(***************************************************************************)

\* the position of a driver input above base
Offset(s) == SNSmall(SNDiff(s, base))

MaxOffset(S) == CHOOSE m \in { Offset(s) : s \in S } :
                  \A s \in S : Offset(s) <= m
MinOffset(S) == CHOOSE m \in { Offset(s) : s \in S } :
                  \A s \in S : m <= Offset(s)

\* max(S) - min(S)
Spread(S) == MaxOffset(S) - MinOffset(S)

\* the members of S, each once, highest first
RECURSIVE Decreasing(_)
Decreasing(S) ==
  IF S = {} THEN <<>>
  ELSE LET top == CHOOSE s \in S : Offset(s) = MaxOffset(S)
       IN  <<top>> \o Decreasing(S \ {top})

\* the last step was a try_add call on a non-empty AckSet
CalledNonEmpty == calls > 0 /\ ~prevAcks.is_empty

\* the last call's argument was above / below the highest sequence number
ArgAbove == SNGreater(arg, prevAcks.highest_sequence_number)
ArgBelow == SNLess(arg, prevAcks.highest_sequence_number)

\* arg - highest and highest - arg as numbers (65536 stands for "more")
Ahead  == LET d == SNDiff(arg, prevAcks.highest_sequence_number)
          IN  IF d.hi = 0 THEN d.lo ELSE Half
Behind == LET d == SNDiff(prevAcks.highest_sequence_number, arg)
          IN  IF d.hi = 0 THEN d.lo ELSE Half

\* the sequence numbers an advance to arg pushes out of the 32-slot window:
\* those of the old window [highest - 31, highest] below arg - 31
PushedOut ==
  { SNAdd(SNSub(prevAcks.highest_sequence_number, 31), i) :
      i \in 0 .. (Ahead - 1) }

\* C1: after try_add calls on an initially empty AckSet whose arguments S
\* satisfy max(S) - min(S) <= 31, every call has returned true and the
\* iteration from begin() to end() yields exactly the distinct values of S
\* in strictly decreasing order, the highest first.
C1_IterationYieldsAdded ==
  (calls > 0 /\ Spread(args) <= 31)
    => /\ allTrue
       /\ Iterate(acks) = Decreasing(args)

\* C1 witness: four calls spanning exactly 31, at least three distinct
\* values, the last one added below the highest into a non-empty bitmap
C1_Witness ==
  /\ calls = 4
  /\ Spread(args) = 31
  /\ Cardinality(args) >= 3
  /\ SNLess(arg, acks.highest_sequence_number)
  /\ Cardinality(acks.predecessors) >= 2
  /\ Len(Iterate(acks)) = Cardinality(args)

\* C2 (as claimed): on a non-empty AckSet every try_add(sn) with
\* highest < sn <= highest + 31 returns true and advances highest to sn.
C2_Original ==
  (CalledNonEmpty /\ ArgAbove /\ Ahead <= 31)
    => (ret /\ acks.highest_sequence_number = arg)

\* C2 (amended): on a non-empty AckSet try_add(sn) with
\* highest < sn <= highest + 31 returns true and advances highest to sn
\* whenever every sequence number the shift pushes out of the window either
\* was added before or lies below the first sequence number ever added.
C2_AdvanceSucceeds ==
  (/\ CalledNonEmpty /\ ArgAbove /\ Ahead <= 31
   /\ \A v \in PushedOut :
        v \in (accepted \ {arg}) \/ SNLess(v, first_added))
    => (ret /\ acks.highest_sequence_number = arg)

\* C2 witness: an accepted advance that pushed a previously added sequence
\* number out of the window
C2_Witness ==
  /\ CalledNonEmpty /\ ArgAbove /\ Ahead <= 31
  /\ ret /\ acks.highest_sequence_number = arg
  /\ \E v \in PushedOut : v \in accepted /\ ~SNLess(v, first_added)

\* C3: on a non-empty AckSet try_add(sn) with sn - highest > 31 returns
\* false and leaves highest, the bitmap and the emptiness flag unchanged;
\* an advance by exactly 31 from a set that has not advanced yet (nothing
\* at or above the first added number is pushed out) is accepted.
C3_TooFarRejected ==
  /\ (CalledNonEmpty /\ ArgAbove /\ Ahead > 31)
       => (~ret /\ acks = prevAcks)
  /\ (/\ CalledNonEmpty /\ ArgAbove /\ Ahead = 31
      /\ prevAcks.highest_sequence_number = first_added)
       => (ret /\ acks.highest_sequence_number = arg)

\* C3 witness: an advance by exactly 32 has been rejected on a set holding
\* predecessors
C3_Witness ==
  /\ CalledNonEmpty /\ ArgAbove /\ Ahead = 32
  /\ ~ret
  /\ acks.predecessors # {}

\* C3 second witness case: an advance by exactly 31 has been accepted
C3_Witness31 ==
  /\ CalledNonEmpty /\ ArgAbove /\ Ahead = 31
  /\ ret /\ acks.highest_sequence_number = arg

\* C4: on a non-empty AckSet try_add(sn) with sn < highest returns true;
\* with highest - sn > 31 the set is unchanged, otherwise exactly bit
\* (highest - sn - 1) becomes set and nothing else changes.
C4_AddBelowHighest ==
  (CalledNonEmpty /\ ArgBelow)
    => /\ ret
       /\ IF Behind > 31
          THEN acks = prevAcks
          ELSE acks = [prevAcks EXCEPT !.predecessors = @ \cup {Behind - 1}]

\* C4 witness: a sequence number exactly 31 below highest has been marked
\* in a bitmap that already held another bit
C4_Witness ==
  /\ CalledNonEmpty /\ ArgBelow /\ Behind = 31
  /\ 30 \in acks.predecessors /\ 30 \notin prevAcks.predecessors
  /\ prevAcks.predecessors # {}

\* C4 second witness case: a sequence number 32 below highest was ignored
C4_WitnessIgnored ==
  /\ CalledNonEmpty /\ ArgBelow /\ Behind = 32
  /\ ret /\ acks = prevAcks

----------------------------------------------------------------------------
(***************************************************************************)
(* Properties of the TransmitQueue.                                        *)
(***************************************************************************)
QueuedIn(list) == { list[i] : i \in 1 .. Len(list) }

Encoded(e) == e.what \in {"encoded", "encoded_erased"}
Erased(e)  == e.what \in {"erased", "encoded_erased"}

EverEncoded == QueuedIn(first_encodings)

\* the size of the record encode writes for msg and the target list inter
RecordSize(msg, inter) ==
  UuidSize + 1 + UuidSize * Cardinality(inter) + msg.size

\* the messages in the order in which the cursor meets them
Rotation(list, cursor) ==
  IF list = <<>> THEN <<>>
  ELSE SubSeq(list, Position(list, cursor), Len(list))
       \o SubSeq(list, 1, Position(list, cursor) - 1)

\* C5: after construction and after every insert_message and encode_few
\* (and after every erase inside encode_few) the message list is empty iff
\* the cursor _next is the end position; the cursor of a non-empty queue
\* points at one of its messages.
C5_EmptyIffCursorAtEnd ==
  /\ (_messages = <<>>) <=> (_next = End)
  /\ _next # End => _next \in Queued
  /\ \A i \in 1 .. Len(log) : log[i].cursor_ok

\* C5 witness: an encode_few call that erased a message for an empty
\* intersection and a fully sent unreliable one, and emptied the queue
C5_Witness ==
  /\ op = "encode_few"
  /\ \E i \in 1 .. Len(log) : log[i].what = "erased"
  /\ \E i \in 1 .. Len(log) : log[i].what = "encoded_erased"
  /\ _messages = <<>> /\ _next = End
  /\ Len(released) = 3

\* C6: on a link driven by insert_message and encode_few calls (its
\* targets added before), an unreliable message is encoded at most once,
\* and no target is listed twice in the records written for it.
C6_UnreliableEncodedOnce ==
  \A m \in 1 .. Len(encodings) :
    /\ encodings[m] <= 1
    /\ \A p \in Peers : sent[m][p] <= 1

\* C6 witness: an unreliable message that had been encoded once and stayed
\* queued was met again and erased without another record, in a call that
\* re-encoded a reliable message
C6_Witness ==
  /\ op = "encode_few"
  /\ lapped
  /\ \E i \in 1 .. Len(log) :
       /\ log[i].what = "erased"
       /\ encodings[log[i].m] = 1
  /\ \E i \in 1 .. Len(log) :
       Encoded(log[i]) /\ encodings[log[i].m] = 0

\* C7: between two consecutive encodings of a message every other message
\* that stayed in the queue throughout is encoded at least once.
C7_FairRotation == overtaken = {}

\* C7 witness: three messages are queued, each was encoded, one of them
\* again after the others, over encode_few calls that stopped on a message
\* that did not fit
C7_Witness ==
  /\ lapped
  /\ Cardinality(Queued) = 3
  /\ Queued \subseteq EverEncoded
  /\ retry # End

\* the last encode_few call stopped on message retry, and x is a message
\* queued behind it that was never encoded, is addressed to a target of the
\* link and fits an empty encoder of that call's capacity
StalledBehind(x) ==
  /\ op = "encode_few"
  /\ retry # End
  /\ x \in Queued \ {retry}
  /\ x \notin EverEncoded
  /\ message[x].targets \cap _targets # {}
  /\ RecordSize(message[x], message[x].targets \cap _targets) <= result.enc.end

\* C8 (as claimed): a message that does not fit never stalls the link, also
\* when it exceeds the capacity of an empty encoder: an encode_few call made
\* with a fresh encoder, while a smaller message that fits it waits behind
\* the message the previous call stopped on, writes a record or moves the
\* cursor on.  (encode_few is a function of the queue and the capacity: a
\* call that writes nothing and leaves the cursor is repeated by every
\* later call.)
C8_Original ==
  [][ (op' = "encode_few"
       /\ \E x \in 1 .. MaxMessages :
            StalledBehind(x) /\ message[x].size < message[retry].size)
      => (result'.count >= 1 \/ _next' # _next)
    ]_vars

\* C8: the message encode_few stopped on keeps the cursor; the
\* next call whose fresh encoder it fits encodes it first and goes on to
\* the messages behind it; a call whose fresh encoder it does not fit
\* writes nothing and leaves it at the cursor.
C8_FittingMessageGoesFirst ==
  [][ (op' = "encode_few" /\ retry # End
       /\ message[retry].targets \cap _targets # {})
      => IF RecordSize(message[retry], message[retry].targets \cap _targets)
              <= result'.enc.end
         THEN /\ log'[1].m = retry
              /\ Encoded(log'[1])
              /\ (Len(log') >= 2 \/ Cardinality(Queued) = 1)
         ELSE /\ Len(log') = 1
              /\ log'[1].m = retry /\ log'[1].what = "failed"
              /\ result'.count = 0 /\ result'.enc.begin = 0
              /\ _next' = retry /\ _messages' = _messages
    ]_vars

\* C8 witness: a call stopped on a message that fits an empty encoder, a
\* smaller never encoded message waits behind it
C8_Witness ==
  /\ \E x \in 1 .. MaxMessages : StalledBehind(x)
  /\ result.count >= 1
  /\ RecordSize(message[retry], message[retry].targets \cap _targets)
       <= result.enc.end

\* C9: insert_message(m) places m immediately before the cursor: in the
\* rotation starting at the cursor m comes after every message already
\* queued, whose order is unchanged; the cursor becomes m if the queue was
\* empty and keeps pointing at the same message otherwise.
C9_InsertBeforeCursor ==
  [][ (Len(released') = Len(released) + 1)
      => LET m == Len(released') IN
         /\ Without(_messages', m) = _messages
         /\ Rotation(_messages', _next') = Rotation(_messages, _next) \o <<m>>
         /\ IF _messages = <<>>
            THEN _next' = m
            ELSE _next' = _next /\ CircularPredecessor(_messages', _next') = m
    ]_vars

\* C9 witness: after two messages were encoded, the third message has been
\* inserted into the middle of the list, before the cursor
C9_Witness ==
  /\ op = "insert_message"
  /\ _messages = <<2, 3, 1>>
  /\ _next = 1
  /\ EverEncoded = {1, 2}

\* C10: when try_encode fails, encode_few stops with the cursor on that
\* message, which stays queued with its targets unchanged and is not
\* counted; no other operation moves the cursor of a non-empty queue, and
\* the next encode_few call starts with that message.
C10_FailedMessageIsRetried ==
  [][ /\ (op' = "encode_few" /\ retry # End)
         => (log' # <<>> /\ log'[1].m = retry)
      /\ (op' = "encode_few" /\ log' # <<>>
          /\ log'[Len(log')].what = "failed")
         => LET f == log'[Len(log')].m IN
            /\ _next' = f
            /\ f \in QueuedIn(_messages')
            /\ message'[f] = message[f]
            /\ \A i \in 1 .. (Len(log') - 1) : log'[i].what # "failed"
            /\ result'.count =
                 Cardinality({ i \in 1 .. Len(log') : Encoded(log'[i]) })
      /\ (op' # "encode_few" /\ _messages # <<>>)
         => (_next' = _next /\ Queued \subseteq QueuedIn(_messages'))
    ]_vars

\* C10 witness: a call that wrote a record and then stopped on a message
\* that did not fit
C10_Witness ==
  /\ op = "encode_few"
  /\ retry # End
  /\ log[Len(log)].what = "failed" /\ log[Len(log)].m = retry
  /\ result.count >= 1
  /\ Cardinality(Queued) >= 2

\* the write position before loop iteration i of the last encode_few call
BeginBefore(i) == IF i = 1 THEN 0 ELSE log[i - 1].begin

\* messages try_encode may be handed: a non-empty target list and a payload
TryEncodeInputs ==
  { [targets |-> t, size |-> z] : t \in (SUBSET Peers) \ {{}},
                                  z \in PayloadSizes }

\* C11: try_encode is transactional: on overflow the write position and the
\* error flag are as before the attempt and false is returned, so the
\* records written earlier stay and a message that fits what is left can
\* still be encoded; on success the position advances by exactly the
\* record's size and true is returned.
C11_TryEncodeTransactional ==
  /\ ~result.enc.was_error
  /\ \A i \in 1 .. Len(log) :
       IF Encoded(log[i])
       THEN \E z \in (IF log[i].m \in DOMAIN message
                      THEN {message[log[i].m].size} ELSE PayloadSizes) :
              log[i].begin = BeginBefore(i) + RecordSize([size |-> z],
                                                         log[i].targets)
       ELSE log[i].begin = BeginBefore(i)
  /\ log # <<>> => result.enc.begin = log[Len(log)].begin
  /\ \A b \in BOOLEAN, in \in TryEncodeInputs, ndebug \in Builds :
       LET e0 == [result.enc EXCEPT !.was_error = b]
           t  == try_encode(e0, in.targets, in, ndebug)
       IN  IF ~b /\ RecordSize(in, in.targets) <= e0.end - e0.begin
           THEN t.ok /\ t.enc = [e0 EXCEPT
                                   !.begin = @ + RecordSize(in, in.targets)]
           ELSE ~t.ok /\ t.enc = e0

\* C11 witness: a call wrote a record and then stopped on a message that
\* did not fit; a smaller message still fits the encoder it leaves
C11_Witness ==
  /\ op = "encode_few"
  /\ result.count >= 1
  /\ log[Len(log)].what = "failed"
  /\ result.enc.begin > 0
  /\ \E in \in TryEncodeInputs :
       \A ndebug \in Builds : try_encode(result.enc, in.targets, in, ndebug).ok

\* C12: a reliable message is removed by encode_few only when its targets
\* do not intersect the link's, and then as soon as the queue reaches it;
\* while they intersect it stays queued, unchanged, and every pass through
\* the queue encodes it again.
C12_ReliableKeptUntilAcknowledged ==
  [][ op' = "encode_few" =>
        \A m \in Queued :
          message[m].reliable =>
            LET inter   == message[m].targets \cap _targets
                reached == { i \in 1 .. Len(log') : log'[i].m = m }
            IN
            /\ \A i \in reached :
                 /\ log'[i].what # "encoded_erased"
                 /\ (log'[i].what = "erased") <=> (inter = {})
            /\ IF inter = {}
               THEN (m \in QueuedIn(_messages')) <=> (reached = {})
               ELSE /\ m \in QueuedIn(_messages')
                    /\ message'[m] = message[m]
                    /\ (\A i \in 1 .. Len(log') : log'[i].what # "failed")
                         => \E i \in reached : Encoded(log'[i])
    ]_vars

\* C12 witness: in one call a reliable message was encoded again after the
\* others, and a reliable message that had been encoded earlier and
\* acknowledged since was erased
C12_Witness ==
  /\ op = "encode_few"
  /\ lapped
  /\ \E i \in 1 .. Len(log) :
       /\ log[i].what = "erased"
       /\ log[i].m \in EverEncoded
       /\ encodings[log[i].m] = 0
  /\ \E i \in 1 .. Len(log) : Encoded(log[i]) /\ log[i].m \in Queued

\* C13 (as claimed), for the messages the link has transmitted: the queue
\* holds a message exactly when the link would transmit it on its next
\* pass, that is when the message's targets intersect the link's.
C13_Original ==
  \A m \in EverEncoded :
    (m \in Queued) <=> (m \in DOMAIN message
                        /\ message[m].targets \cap _targets # {})

\* C13: a queue holds a message from insert_message until encode_few
\* reaches it with no target of the link left in it, where it is released,
\* once; every message the link would transmit is held, and a held message
\* that the link would not transmit is erased, not encoded, when reached.
C13_HeldUntilReached ==
  /\ DOMAIN message = Queued
  /\ \A m \in 1 .. Len(released) :
       /\ released[m] \in {0, 1}
       /\ (released[m] = 0) <=> (m \in Queued)
  /\ \A i \in 1 .. Len(log) :
       /\ (log[i].targets = {}) <=> (log[i].what = "erased")
       /\ Erased(log[i]) => log[i].m \notin Queued

\* C13 witness: after a call that erased a message, the queue still holds a
\* message that has no target of the link left
C13_Witness ==
  /\ op = "encode_few"
  /\ \E i \in 1 .. Len(log) : log[i].what = "erased"
  /\ \E m \in Queued : message[m].targets \cap _targets = {}

\* C16: messages are first encoded in insertion order (message ids count
\* the insert_message calls): the first encodings happened in increasing
\* order, and no queued message waits for its first encoding while a
\* message inserted after it has been encoded.
C16_FirstEncodingsInInsertionOrder ==
  /\ \A i, j \in 1 .. Len(first_encodings) :
       i < j => first_encodings[i] < first_encodings[j]
  /\ \A m1 \in Queued, m2 \in EverEncoded :
       m1 < m2 => m1 \in EverEncoded

\* C16 witness: one call encoded the reliable message 1 again and then the
\* unreliable message 3 for the first time, message 2 having been encoded
\* by an earlier call
C16_Witness ==
  /\ op = "encode_few"
  /\ first_encodings = <<1, 2, 3>>
  /\ encodings[3] = 1
  /\ \E i, j \in 1 .. Len(log) :
       /\ i < j
       /\ log[i].m = 1 /\ Encoded(log[i])
       /\ log[j].m = 3 /\ Encoded(log[j])
       /\ \A k \in 1 .. Len(log) : log[k].m # 2

\* C18 (as claimed): one encode_few call handles each message of the queue
\* at most once, so that no message is encoded twice into the same
\* datagram, also when the element that was the cursor's predecessor at the
\* start of the call is erased for an empty intersection.
C18_Original ==
  \A i, j \in 1 .. Len(log) :
    (i < j /\ Encoded(log[i]) /\ Encoded(log[j])) => log[i].m # log[j].m

\* more targets than the one-byte count of a record can hold: with 256
\* targets no record is written in any build.  A build with NDEBUG refuses
\* and leaves the encoder as it was; any other build aborts the process at
\* assert(0), after the source uuid was put
TooManyTargetsRefused ==
  LET enc == FreshEncoder(5000)
      msg == [size |-> 4]
  IN  /\ ~try_encode(enc, 1 .. 256, msg, TRUE).ok
      /\ try_encode(enc, 1 .. 256, msg, TRUE).enc = enc
      /\ ~try_encode(enc, 1 .. 256, msg, FALSE).ok
      /\ try_encode(enc, 1 .. 256, msg, FALSE).enc
           = [enc EXCEPT !.begin = UuidSize, !.aborted = TRUE]
      /\ encode_targets(enc, 1 .. 256, TRUE) = set_error(enc)
      /\ encode_targets(enc, 1 .. 256, FALSE) = [enc EXCEPT !.aborted = TRUE]

\* C19: every record encode_few writes lists exactly the message's targets
\* intersected with the link's, as they are when the record is written,
\* between 1 and 255 of them; a message with an empty intersection is
\* erased, not encoded, and one with more than 255 is not encoded.
C19_RecordTargets ==
  [][ op' = "encode_few" =>
        /\ TooManyTargetsRefused
        /\ \A i \in 1 .. Len(log') :
             LET e == log'[i]
                 m == e.m
                 sent_before ==
                   /\ ~message[m].reliable
                   /\ \E j \in 1 .. (i - 1) :
                        log'[j].m = m /\ Encoded(log'[j])
             IN
             /\ e.targets = IF sent_before THEN {}
                            ELSE message[m].targets \cap _targets
             /\ (e.targets = {}) <=> (e.what = "erased")
             /\ Encoded(e) => (Cardinality(e.targets) >= 1
                               /\ Cardinality(e.targets) <= 255)
    ]_vars

\* C19 witness: one call wrote a record that lists one of the two targets
\* of its message, wrote another record, and erased a message with an
\* empty intersection
C19_Witness ==
  /\ op = "encode_few"
  /\ result.count = 2
  /\ \E i \in 1 .. Len(log) : log[i].what = "erased"
  /\ \E i \in 1 .. Len(log) :
       /\ log[i].what = "encoded"
       /\ log[i].m \in Queued
       /\ message[log[i].m].reliable
       /\ Cardinality(log[i].targets) = 1
       /\ Cardinality(message[log[i].m].targets) = 2

\* C20: when encode_few has encoded an unreliable message, all the link's
\* targets are removed from its targets; the message is erased in that call
\* exactly when none is left, and otherwise stays queued, to be erased when
\* the loop reaches it again.
C20_UnreliableTargetsRemoved ==
  [][ op' = "encode_few" =>
        \A i \in 1 .. Len(log') :
          LET e == log'[i]
              m == e.m
          IN  (Encoded(e) /\ ~message[m].reliable) =>
                LET rest  == message[m].targets \ _targets
                    again == { j \in (i + 1) .. Len(log') : log'[j].m = m }
                IN  IF rest = {}
                    THEN /\ e.what = "encoded_erased"
                         /\ m \notin QueuedIn(_messages')
                    ELSE /\ e.what = "encoded"
                         /\ IF again = {}
                            THEN /\ m \in QueuedIn(_messages')
                                 /\ message'[m].targets = rest
                            ELSE /\ m \notin QueuedIn(_messages')
                                 /\ \A j \in again : log'[j].what = "erased"
    ]_vars

\* C20 witness: one call encoded an unreliable message that it erased and
\* an unreliable message that stays queued for targets beyond the link
C20_Witness ==
  /\ op = "encode_few"
  /\ \E i \in 1 .. Len(log) : log[i].what = "encoded_erased"
  /\ \E i \in 1 .. Len(log) :
       /\ log[i].what = "encoded"
       /\ log[i].m \in Queued
       /\ ~message[log[i].m].reliable
       /\ message[log[i].m].targets # {}
       /\ message[log[i].m].targets \cap _targets = {}

----------------------------------------------------------------------------
(***************************************************************************)
(* The receiver's AckSet under a burst of reliable messages (checked       *)
(* under SpecAckSet: the datagrams that get through hand the sequence      *)
(* numbers of the burst to try_add in any order).                          *)
(***************************************************************************)

\* the sequence numbers the iteration yields: those an acknowledgement
\* built from the AckSet names
Represented(a) == QueuedIn(Iterate(a))

\* C15 (as claimed): the receiver's AckSet never blocks the progress of a
\* burst for good: a sequence number that try_add takes (returns true for)
\* when it first arrives is represented in the set afterwards, so that the
\* receiver acknowledges it and the sender stops retransmitting it.
C15_Original ==
  [][ (ret' /\ arg' \notin args) => arg' \in Represented(acks') ]_vars

\* C15: what the guard of try_add does keep: a sequence number at or above
\* the first one added that has not arrived yet is never pushed out of the
\* window, so that it is represented as soon as it arrives.
C15_GapsAboveFirstStayInWindow ==
  (calls > 0) =>
    \A o \in 0 .. 65 :
      LET s == SNAdd(base, o) IN
        (s \notin args
         /\ ~SNLess(s, first_added)
         /\ SNLess(s, acks.highest_sequence_number))
        => Offset(acks.highest_sequence_number) - o <= 31

\* C15 witness: the window has moved beyond 31 above the first sequence
\* number added, every sequence number pushed out having arrived before
C15_Witness ==
  /\ calls = MaxCalls
  /\ allTrue
  /\ Offset(acks.highest_sequence_number) - Offset(first_added) > 31

----------------------------------------------------------------------------
(***************************************************************************)
(* Further properties of the AckSet (checked under SpecAckSet).            *)
(***************************************************************************)

\* the advance to arg pushes out of the window a sequence number that is
\* not below the first one ever added and whose predecessor bit is not set
GapPushedOut ==
  \E v \in PushedOut :
    ~SNLess(v, first_added) /\ v \notin Represented(prevAcks)

\* C21: on a non-empty AckSet, try_add(sn) with highest < sn <= highest + 31
\* returns false and leaves the set unchanged exactly when the shift would
\* push out of the window a sequence number that is not below the first one
\* ever added and whose predecessor bit is not set; otherwise it returns
\* true.
C21_RefusedExactlyWhenGapPushedOut ==
  (CalledNonEmpty /\ ArgAbove /\ Ahead <= 31)
    => /\ ret = ~GapPushedOut
       /\ ~ret => acks = prevAcks
       /\ ret => acks.highest_sequence_number = arg

\* C21 witness: an advance within 31 refused although part of what it
\* would push out is represented
C21_Witness ==
  /\ CalledNonEmpty /\ ArgAbove /\ Ahead <= 31
  /\ ~ret
  /\ acks = prevAcks
  /\ PushedOut \cap Represented(prevAcks) # {}

\* C21 witness: an advance within 31 accepted although it pushes out
\* sequence numbers that were never added, all below the first one added
C21_WitnessAccepted ==
  /\ CalledNonEmpty /\ ArgAbove /\ Ahead <= 31
  /\ ret
  /\ PushedOut \ accepted # {}
  /\ PushedOut \cap Represented(prevAcks) # {}

\* C23: try_add is idempotent: in every state and for every sn, a second
\* try_add(sn) returns what the first returned and leaves the state the
\* first left; try_add(highest) on a non-empty set changes nothing and
\* returns true.
C23_TryAddIdempotent ==
  /\ \A o \in Offsets :
       LET sn    == SNAdd(base, o)
           once  == try_add(acks, sn)
           twice == try_add(once.acks, sn)
       IN  twice = once
  /\ ~acks.is_empty =>
       try_add(acks, acks.highest_sequence_number)
         = [acks |-> acks, ret |-> TRUE]
  /\ (calls > 1 /\ arg = first_added /\ Cardinality(args) = 1)
       => (acks = prevAcks /\ ret)

\* C23 witness: the same sequence number handed over twice in a row after
\* another one, the first of the two calls having advanced highest
C23_Witness ==
  /\ calls = 3
  /\ Cardinality(args) = 2
  /\ arg # first_added
  /\ acks.highest_sequence_number = arg
  /\ acks.predecessors # {}
  /\ acks = prevAcks
  /\ ret

\* C24: the AckSet never reports a sequence number it was not given: every
\* value the iteration yields was the argument of a call that returned
\* true, the values are pairwise distinct and within 31 of highest, highest
\* never decreases and the set never becomes empty again.
C24_OnlyAddedReported ==
  LET it == Iterate(acks) IN
  /\ \A i \in 1 .. Len(it) :
       /\ it[i] \in accepted
       /\ LET d == SNDiff(acks.highest_sequence_number, it[i])
          IN  d.hi = 0 /\ d.lo <= 31
       /\ \A j \in 1 .. Len(it) : i # j => it[i] # it[j]
  /\ (calls > 0) => ~acks.is_empty
  /\ (calls = 0) => it = <<>>
  /\ CalledNonEmpty =>
       ~SNLess(acks.highest_sequence_number,
               prevAcks.highest_sequence_number)

\* C24 witness: calls spread over more than the window, one of them
\* refused, and the set reports three values
C24_Witness ==
  /\ calls = MaxCalls
  /\ ~allTrue
  /\ Spread(args) > 31
  /\ Len(Iterate(acks)) = 3

\* C25: the AckSet never forgets a sequence number it has not received:
\* every sequence number from the first one added up to, not including,
\* highest - 31 was the argument of a successful call; so a sequence number
\* below the window and not below the first one added that try_add silently
\* takes had been added before.
C25_NoUnreceivedForgotten ==
  /\ [] ((calls > 0) =>
           \A o \in 0 .. 65 :
             LET s == SNAdd(base, o) IN
               (~SNLess(s, first_added)
                /\ SNLess(s, SNSub(acks.highest_sequence_number, 31)))
               => s \in accepted)
  /\ [][ (/\ ~acks.is_empty
          /\ SNLess(arg', SNSub(acks.highest_sequence_number, 31))
          /\ ~SNLess(arg', first_added))
         => (arg' \in accepted /\ ret' /\ acks' = acks) ]_vars

\* C25 witness: a sequence number added earlier, since pushed out of the
\* window, is handed over again and silently taken
C25_Witness ==
  /\ CalledNonEmpty /\ ArgBelow /\ Behind > 31
  /\ ~SNLess(arg, first_added)
  /\ ret
  /\ acks = prevAcks

----------------------------------------------------------------------------
(***************************************************************************)
(* Further properties of the TransmitQueue (checked under SpecQueue).      *)
(***************************************************************************)

\* the loop iterations of the last encode_few call that wrote a record,
\* and those that removed the message from the list
EncodedEntries == { i \in 1 .. Len(log) : Encoded(log[i]) }
ErasedEntries  == { i \in 1 .. Len(log) : Erased(log[i]) }

\* C22: encode_few returns exactly the number of records it appended to
\* the encoder during the call: 0, with the encoder untouched, when the
\* queue is empty or when the first message attempted does not fit;
\* messages erased for an empty intersection are not counted.
C22_CountIsRecordsWritten ==
  (op = "encode_few") =>
    /\ result.count = Cardinality(EncodedEntries)
    /\ (result.count = 0) <=> (result.enc.begin = 0)
    /\ (log = <<>>) => (result.count = 0 /\ _messages = <<>>)
    /\ \A i \in 1 .. Len(log) :
         (log[i].what = "failed" /\ \A j \in 1 .. (i - 1) : ~Encoded(log[j]))
           => (result.count = 0 /\ result.enc.begin = 0)

\* C22 witness: a call that erased a message for an empty intersection,
\* wrote two records and stopped on a message that did not fit
C22_Witness ==
  /\ op = "encode_few"
  /\ result.count = 2
  /\ Len(log) = 4
  /\ \E i \in 1 .. Len(log) : log[i].what = "erased"
  /\ log[Len(log)].what = "failed"

\* C22 witness: a call that erased a message and then stopped on the first
\* message it attempted
C22_WitnessZero ==
  /\ op = "encode_few"
  /\ Len(log) = 2
  /\ log[1].what = "erased"
  /\ log[2].what = "failed"
  /\ result.count = 0

\* C26 (as claimed): encode_few ends after a number of loop iterations
\* bounded by the number of messages in the queue at the start of the call
\* (the messages still queued and those the call removed).
C26_Original ==
  (op = "encode_few") =>
    Len(log) <= Len(_messages) + Cardinality(ErasedEntries)

\* C26: encode_few ends after at most as many loop iterations as there are
\* messages in the queue at the start of the call, unless the call erases,
\* for an empty intersection, the message before the cursor (the one at
\* which the loop is meant to stop); in that case every further iteration
\* is on a message the call has encoded before, and it writes another
\* record of a reliable message, fails, or erases the message, so that the
\* capacity of the encoder and the length of the list end the loop.
C26_BoundedUnlessLastErased ==
  [][ (op' = "encode_few" /\ _messages # <<>>)
      => LET last == CircularPredecessor(_messages, _next) IN
         /\ (~\E i \in 1 .. Len(log') :
                log'[i].m = last /\ log'[i].what = "erased")
              => Len(log') <= Len(_messages)
         /\ \A i \in 1 .. Len(log') :
              i > Len(_messages)
                => (/\ \E j \in 1 .. (i - 1) :
                         log'[j].m = last /\ log'[j].what = "erased"
                    /\ \E j \in 1 .. (i - 1) :
                         log'[j].m = log'[i].m /\ log'[j].what = "encoded"
                    /\ log'[i].what \in {"encoded", "failed", "erased"}
                    /\ log'[i].what = "encoded"
                         => message[log'[i].m].reliable
                    /\ log'[i].what = "erased"
                         => ~message[log'[i].m].reliable) ]_vars

\* C26 witness: a call on three messages that made three iterations, the
\* last of them on the message before the cursor, and erased a message on
\* its way
C26_Witness ==
  /\ op = "encode_few"
  /\ Len(log) = 3
  /\ Len(_messages) = 2
  /\ log[1].what = "erased"
  /\ Encoded(log[3])
  /\ log[1].m # log[2].m /\ log[2].m # log[3].m /\ log[1].m # log[3].m

\* the messages of list that are in the set keep, in the order of list
Remaining(list, keep) == SelectSeq(list, LAMBDA x : x \in keep)

\* C27: encode_few never changes the targets of a reliable message, never
\* changes the link's own target set, and never removes from the queue a
\* message whose targets intersect the link's target set, except an
\* unreliable message it has encoded in that call; the messages that remain
\* keep their relative circular order.
C27_EncodeFewFrame ==
  [][ (op' = "encode_few") =>
        /\ _targets' = _targets
        /\ \A m \in Queued :
             /\ (message[m].reliable /\ m \in Queued')
                  => message'[m] = message[m]
             /\ (m \notin Queued' /\ message[m].targets \cap _targets # {})
                  => (/\ ~message[m].reliable
                      /\ \E i \in 1 .. Len(log') :
                           log'[i].m = m /\ Encoded(log'[i]))
             /\ (m \in Queued')
                  => (/\ message'[m].reliable = message[m].reliable
                      /\ message'[m].size = message[m].size
                      /\ message'[m].targets \subseteq message[m].targets
                      /\ message[m].targets \ message'[m].targets
                           \subseteq _targets)
        /\ Queued' \subseteq Queued
        /\ _messages' = Remaining(_messages, Queued')
        /\ _next' # End =>
             Rotation(_messages', _next')
               = Remaining(Rotation(_messages, _next'), Queued') ]_vars

\* C27 witness: a call on three messages that encoded and kept a reliable
\* message whose targets the link shares, removed an unreliable message it
\* had encoded and left two messages, in their order
C27_Witness ==
  /\ op = "encode_few"
  /\ Len(_messages) = 2
  /\ \E i \in 1 .. Len(log) : log[i].what = "encoded_erased"
  /\ \E i \in 1 .. Len(log) :
       /\ log[i].what = "encoded"
       /\ log[i].m \in Queued
       /\ message[log[i].m].reliable
       /\ message[log[i].m].targets \cap _targets # {}

\* C28: a queue releases a message it was handed at most once, and exactly
\* when it removes the message from its list: a message in the list has not
\* been released by this queue, a message removed from it (for an empty
\* intersection or as an unreliable message sent to every target of the
\* link) has been released once, and each step releases exactly the
\* messages it removes.
C28_ReleasedOnceOnRemoval ==
  /\ [] (\A m \in 1 .. Len(released) :
           /\ (m \in Queued) => (released[m] = 0)
           /\ (m \notin Queued) => (released[m] = 1))
  /\ [][ /\ \A m \in 1 .. Len(released) :
              released'[m] - released[m]
                = (IF m \in Queued /\ m \notin Queued' THEN 1 ELSE 0)
         /\ (op' = "encode_few") =>
              \A m \in 1 .. Len(released) :
                released'[m] - released[m]
                  = Cardinality({ i \in 1 .. Len(log') :
                                    log'[i].m = m /\ Erased(log'[i]) })
         /\ (op' # "encode_few") => Queued \subseteq Queued' ]_vars

\* C28 witness: one call has removed a message for an empty intersection
\* and an unreliable message it had sent, each released once, and a third
\* message is still queued, not released
C28_Witness ==
  /\ op = "encode_few"
  /\ \E i \in 1 .. Len(log) : log[i].what = "erased"
  /\ \E i \in 1 .. Len(log) : log[i].what = "encoded_erased"
  /\ Len(released) = 3
  /\ Len(_messages) = 1
  /\ released[_messages[1]] = 0
  /\ \A m \in 1 .. 3 : m \notin Queued => released[m] = 1

====
